---- MODULE Spec2Model ----
(***************************************************************************)
(* Voice Recording API (backend/main.py): the FastAPI route handlers and   *)
(* the Supabase collaborators they call (auth provider, object storage     *)
(* bucket "audio-recordings", tables "recordings" and "user_profiles").    *)
(*                                                                         *)
(* Strings the handlers take apart (file names, storage paths, public      *)
(* URLs, content types) are sequences of tokens; "/", "." and "?" are      *)
(* tokens of their own, every other token is free of them.                 *)
(* Every handler is one action: no handler awaits between its first and    *)
(* its last collaborator call except to read the uploaded bytes.           *)
(***************************************************************************)
EXTENDS Integers, Sequences, FiniteSets, TLC

VARIABLES
    supabase,        \* the module-level client handle: TRUE = created, FALSE = None
    user_metadata,   \* auth provider: user_metadata of the registered user
    storage,         \* bucket "audio-recordings": the set of object paths
    recordings,      \* table "recordings": a set of rows
    user_profiles,   \* table "user_profiles": a set of rows
    nreq,            \* number of requests served so far
    uploaded_path,   \* history: recording id -> the storage path its upload wrote
    request,         \* the last request
    calls,           \* the collaborator calls the last request issued, in order
    response         \* the last response

vars == <<supabase, user_metadata, storage, recordings, user_profiles, nreq,
          uploaded_path, request, calls, response>>

\* ------------------------------------------------------------------ bounds
MaxRequests == 2

\* ----------------------------------------------------------------- strings
NULL == -1
NoCred == "no-credentials"
FallbackId == "123e4567-e89b-12d3-a456-426614174000"
FallbackEmail == "test@example.com"
DefaultName == "Test User"
Bucket == "audio-recordings"

EmptyMeta == [k \in {} |-> ""]

\* dict.get(key) of a metadata dict: "" stands for a missing (None) value
Get(d, k) == IF k \in DOMAIN d THEN d[k] ELSE ""

\* s.startswith(p)
StartsWith(s, p) == Len(s) >= Len(p) /\ SubSeq(s, 1, Len(p)) = p

\* sep in s
Contains(s, sep) == \E i \in DOMAIN s : s[i] = sep

\* s.split(sep)[-1]
SplitLast(s, sep) ==
    LET last == IF Contains(s, sep)
                THEN CHOOSE i \in DOMAIN s :
                        s[i] = sep /\ \A j \in DOMAIN s : j > i => s[j] # sep
                ELSE 0
    IN SubSeq(s, last + 1, Len(s))

\* datetime.utcnow(): the clock reads later at every request
utcnow == nreq + 1

\* str(uuid.uuid4()): a fresh token, the k-th drawn by this request
Uuid(k) == "uuid-" \o ToString(nreq + 1) \o "-" \o ToString(k)

\* ------------------------------------------------------------- exceptions
Return(v) == [raised |-> FALSE, status |-> 200, value |-> v]
Raise(s)  == [raised |-> TRUE,  status |-> s,   value |-> ""]

\* the handlers' last clause: except Exception as e: raise HTTPException(500)
\* (HTTPException is an Exception: the handler's own 4xx are caught too)
ExceptException(res) == IF res.raised THEN Raise(500) ELSE res

\* ------------------------------------------------------ identity verifier
NoIdentity == [id |-> "", email |-> "", user_metadata |-> EmptyMeta]
Fallback == [id |-> FallbackId, email |-> FallbackEmail, user_metadata |-> EmptyMeta]
ProviderUser == [id |-> "u1", email |-> "u1@example.com", user_metadata |-> user_metadata]

Credentials == {NoCred, "token"}
\* what supabase.auth.get_user(token) may do with a token: give its user,
\* raise (token invalid or expired, provider unreachable), give no user
ProviderOutcomes(cred) == IF cred = NoCred THEN {"none"} ELSE {"user", "raise", "no-user"}

AuthReturn(u) == [raised |-> FALSE, status |-> 200, value |-> u]
AuthRaise(s)  == [raised |-> TRUE,  status |-> s,   value |-> NoIdentity]

\* inner except Exception: fall back to the test user
AuthInnerExcept(res) == IF res.raised THEN AuthReturn(Fallback) ELSE res

AuthOuterExcept_reraise(res) == res
\* outer except Exception: fall back to the test user
AuthOuterExcept(res) == IF res.raised THEN AuthReturn(Fallback) ELSE res

get_current_user(cred, prov) ==
    AuthOuterExcept(
        IF cred = NoCred THEN AuthReturn(Fallback)
        ELSE IF ~supabase THEN AuthRaise(500)
        ELSE AuthInnerExcept(
                IF prov = "raise" THEN AuthRaise(0)
                ELSE IF prov = "no-user" THEN AuthRaise(401)
                ELSE AuthReturn(ProviderUser)))

\* ------------------------------------------------------------ collaborators
Call(fn, ok) == [fn |-> fn, ok |-> ok]
Called(fn, ok) == \E i \in DOMAIN calls : calls[i] = Call(fn, ok)
Issued(fn) == \E i \in DOMAIN calls : calls[i].fn = fn

\* storage.from_("audio-recordings").upload(path, ...)
StorageUpload(objects, path, ok) == IF ok THEN objects \cup {path} ELSE objects
\* storage.from_("audio-recordings").remove([path])
StorageRemove(objects, path, ok) == IF ok THEN objects \ {path} ELSE objects

\* storage.from_("audio-recordings").get_public_url(path): the forms of URL
\* the collaborator may give ("plain", "query" with a trailing "?", and
\* "custom-domain" without the bucket name)
get_public_url(path, form) ==
    IF form = "plain" THEN <<"https:", "/", "/", "host", "/", Bucket, "/">> \o path
    ELSE IF form = "query" THEN <<"https:", "/", "/", "host", "/", Bucket, "/">> \o path \o <<"?">>
    ELSE <<"https:", "/", "/", "cdn", "/">> \o path

ProfileColumns == {"id", "email", "full_name", "created_at", "updated_at"}
\* a column the payload of an insert omits is left NULL
ColumnDefault(c) == IF c \in {"created_at", "updated_at"} THEN NULL ELSE ""

\* table("user_profiles").upsert(row).execute(): insert, or on a conflict on
\* id update the columns the payload names
Upsert(rows, row, ok) ==
    IF ~ok THEN rows
    ELSE IF \E old \in rows : old.id = row.id
    THEN LET old == CHOOSE o \in rows : o.id = row.id
         IN (rows \ {old}) \cup
            {[c \in ProfileColumns |-> IF c \in DOMAIN row THEN row[c] ELSE old[c]]}
    ELSE rows \cup
            {[c \in ProfileColumns |-> IF c \in DOMAIN row THEN row[c] ELSE ColumnDefault(c)]}

\* table("recordings").insert(row).execute()
Insert(rows, row, ok) == IF ok THEN rows \cup {row} ELSE rows

\* --------------------------------------------------------------- requests
Req(op, cred, prov, arg) == [op |-> op, cred |-> cred, prov |-> prov, arg |-> arg]
Resp(op, status, rejected, caller, rid, path, body) ==
    [op |-> op, status |-> status, rejected |-> rejected, caller |-> caller,
     rid |-> rid, path |-> path, body |-> body]

\* a dependency that raises ends the request before the handler runs
Rejected(op, auth) ==
    /\ response' = Resp(op, auth.status, TRUE, NoIdentity, "", <<>>, {})
    /\ calls' = <<>>
    /\ UNCHANGED <<user_metadata, storage, recordings, user_profiles, uploaded_path>>

\* one request is served: the clock moves on, the client handle stays
Served(op, cred, prov, arg) ==
    /\ nreq < MaxRequests
    /\ nreq' = nreq + 1
    /\ request' = Req(op, cred, prov, arg)
    /\ UNCHANGED supabase

\* the outcome of a collaborator call is drawn only where the call is made
Outcomes(made) == IF made THEN BOOLEAN ELSE {TRUE}

\* ------------------------------------------------- POST /recordings/upload
AudioPrefix == <<"audio", "/">>
ContentTypes == {<<"audio", "/", "wav">>, <<"image", "/", "png">>}
\* the uploads tried: a file name and the form of public URL the bucket gives
UploadCases ==
    {<<<<"rec">>, "plain">>,
     <<<<"rec", ".", "wav">>, "query">>,
     <<<<"take", ".", "1", "/", "rec">>, "plain">>,
     <<<<"rec", ".", "wav">>, "custom-domain">>}

\* audio_file.filename.split(".")[-1] if "." in audio_file.filename else "wav"
FileExtension(name) == IF Contains(name, ".") THEN SplitLast(name, ".") ELSE <<"wav">>

\* f"{current_user['id']}/{filename}"
StoragePath(user_id, filename) == <<user_id, "/">> \o filename

\* full_name of the sync: user_metadata.full_name, else .name, else the default
SyncFullName(current_user) ==
    IF Get(current_user.user_metadata, "full_name") # ""
    THEN Get(current_user.user_metadata, "full_name")
    ELSE IF Get(current_user.user_metadata, "name") # ""
    THEN Get(current_user.user_metadata, "name")
    ELSE DefaultName

UploadProfileData_synced(current_user) ==
    [id |-> current_user.id, email |-> current_user.email,
     full_name |-> SyncFullName(current_user)]
\* user_profile_data of the upload
UploadProfileData(current_user) ==
    [id |-> current_user.id, email |-> current_user.email, full_name |-> DefaultName]

UploadCleanup_missing(objects, path, ok) == objects
\* "Clean up storage if database insert fails": best effort
UploadCleanup(objects, path, ok) == StorageRemove(objects, path, ok)

upload_recording(current_user, content_type, name, form, up_ok, upsert_ok, ins_ok, rm_ok) ==
    LET filename == <<Uuid(1), ".">> \o FileExtension(name)
        storage_path == StoragePath(current_user.id, filename)
        audio_url == get_public_url(storage_path, form)
        recording_data ==
            [id |-> Uuid(2), user_id |-> current_user.id, title |-> "title",
             description |-> "", script_text |-> "script", audio_url |-> audio_url,
             created_at |-> utcnow]
        NoEffect(res, log) ==
            [res |-> res, objects |-> storage, rows |-> recordings,
             profiles |-> user_profiles, log |-> log, stored |-> FALSE]
        body ==
            IF ~supabase THEN NoEffect(Raise(500), <<>>)
            ELSE IF ~StartsWith(content_type, AudioPrefix) THEN NoEffect(Raise(400), <<>>)
            ELSE IF ~up_ok THEN NoEffect(Raise(500), <<Call("storage.upload", FALSE)>>)
            ELSE LET written == StorageUpload(storage, storage_path, TRUE)
                     profiles == Upsert(user_profiles, UploadProfileData(current_user), upsert_ok)
                     log == <<Call("storage.upload", TRUE),
                              Call("user_profiles.upsert", upsert_ok),
                              Call("recordings.insert", ins_ok)>>
                 IN IF ins_ok
                    THEN [res |-> Return(recording_data.id),
                          objects |-> written,
                          rows |-> Insert(recordings, recording_data, TRUE),
                          profiles |-> profiles, log |-> log, stored |-> TRUE]
                    ELSE [res |-> Raise(500),
                          objects |-> UploadCleanup(written, storage_path, rm_ok),
                          rows |-> recordings,
                          profiles |-> profiles,
                          log |-> Append(log, Call("storage.remove", rm_ok)),
                          stored |-> TRUE]
    IN \E eff \in {body} : \E out \in {ExceptException(eff.res)} :
        /\ storage' = eff.objects
        /\ recordings' = eff.rows
        /\ user_profiles' = eff.profiles
        /\ calls' = eff.log
        /\ uploaded_path' = IF eff.stored
                            THEN uploaded_path \cup {<<recording_data.id, storage_path>>}
                            ELSE uploaded_path
        /\ response' = Resp("upload", out.status, FALSE, current_user,
                            IF eff.stored THEN recording_data.id ELSE "",
                            IF eff.stored THEN storage_path ELSE <<>>,
                            IF out.raised THEN {} ELSE {recording_data.id})
        /\ UNCHANGED user_metadata

\* ------------------------------------------ DELETE /recordings/{recording_id}
DeleteSelect_any_owner(rows, recording_id, user_id) ==
    {r \in rows : r.id = recording_id}
\* table("recordings").select("audio_url").eq("id", ...).eq("user_id", ...)
DeleteSelect(rows, recording_id, user_id) ==
    {r \in rows : r.id = recording_id /\ r.user_id = user_id}

\* filename = audio_url.split("/")[-1]; f"{current_user['id']}/{filename}"
DeleteStoragePath(user_id, audio_url) == StoragePath(user_id, SplitLast(audio_url, "/"))

\* table("recordings").delete().eq("id", ...).eq("user_id", ...).execute()
DeleteRows(rows, recording_id, user_id, ok) ==
    IF ok THEN rows \ {r \in rows : r.id = recording_id /\ r.user_id = user_id}
    ELSE rows

delete_recording(current_user, recording_id, sel_ok, rm_ok, del_ok) ==
    LET data == DeleteSelect(recordings, recording_id, current_user.id)
        audio_url == (CHOOSE r \in data : TRUE).audio_url
        in_bucket == Contains(audio_url, Bucket)
        storage_path == DeleteStoragePath(current_user.id, audio_url)
        NoEffect(res, log) ==
            [res |-> res, objects |-> storage, rows |-> recordings, log |-> log, path |-> <<>>]
        body ==
            IF ~supabase THEN NoEffect(Raise(500), <<>>)
            ELSE IF ~sel_ok THEN NoEffect(Raise(0), <<Call("recordings.select", FALSE)>>)
            ELSE IF data = {} THEN NoEffect(Raise(404), <<Call("recordings.select", TRUE)>>)
            ELSE [res |-> IF del_ok THEN Return(recording_id) ELSE Raise(0),
                  objects |-> IF in_bucket
                              THEN StorageRemove(storage, storage_path, rm_ok)
                              ELSE storage,
                  rows |-> DeleteRows(recordings, recording_id, current_user.id, del_ok),
                  log |-> <<Call("recordings.select", TRUE)>>
                          \o (IF in_bucket THEN <<Call("storage.remove", rm_ok)>> ELSE <<>>)
                          \o <<Call("recordings.delete", del_ok)>>,
                  path |-> IF in_bucket THEN storage_path ELSE <<>>]
    IN \E eff \in {body} : \E out \in {ExceptException(eff.res)} :
        /\ storage' = eff.objects
        /\ recordings' = eff.rows
        /\ calls' = eff.log
        /\ response' = Resp("delete", out.status, FALSE, current_user,
                            recording_id, eff.path, {})
        /\ UNCHANGED <<user_metadata, user_profiles, uploaded_path>>

\* ------------------------------------------ GET /recordings/user/{user_id}
UserIds == {FallbackId, "u1"}

\* table("recordings").select("*").eq("user_id", user_id)
ListSelect(rows, user_id) == {r \in rows : r.user_id = user_id}

get_user_recordings(current_user, user_id, sel_ok) ==
    LET body == IF ~supabase THEN Raise(500)
                ELSE IF ~sel_ok THEN Raise(0)
                ELSE Return(ListSelect(recordings, user_id))
    IN \E out \in {ExceptException(body)} :
        /\ calls' = IF supabase THEN <<Call("recordings.select", sel_ok)>> ELSE <<>>
        /\ response' = Resp("list", out.status, FALSE, current_user, "", <<>>,
                            IF out.raised THEN {} ELSE out.value)
        /\ UNCHANGED <<user_metadata, storage, recordings, user_profiles, uploaded_path>>

\* ------------------------------------------------------------- the router
\* the routes the module registers: method and path, "{}" a path parameter
Routes ==
    {[method |-> "GET",    path |-> <<>>,                            endpoint |-> "root"],
     [method |-> "GET",    path |-> <<"health">>,                    endpoint |-> "health"],
     [method |-> "POST",   path |-> <<"test">>,                      endpoint |-> "test"],
     [method |-> "POST",   path |-> <<"recordings", "upload">>,      endpoint |-> "upload_recording"],
     [method |-> "GET",    path |-> <<"recordings", "user", "{}">>,  endpoint |-> "get_user_recordings"],
     [method |-> "DELETE", path |-> <<"recordings", "{}">>,          endpoint |-> "delete_recording"],
     [method |-> "POST",   path |-> <<"user", "profile", "sync">>,   endpoint |-> "sync_user_profile"],
     [method |-> "GET",    path |-> <<"user", "profile">>,           endpoint |-> "get_user_profile"],
     [method |-> "POST",   path |-> <<"user", "profile", "create">>, endpoint |-> "create_user_profile"],
     [method |-> "PUT",    path |-> <<"user", "profile", "update">>, endpoint |-> "update_user_profile"]}

PathMatches(pattern, path) ==
    /\ Len(pattern) = Len(path)
    /\ \A i \in DOMAIN pattern : pattern[i] = "{}" \/ pattern[i] = path[i]

\* the endpoint a request is routed to; a path that no route serves with this
\* method is answered by the router itself (405), an unknown path with 404
Dispatch(method, path) ==
    IF \E r \in Routes : r.method = method /\ PathMatches(r.path, path)
    THEN (CHOOSE r \in Routes : r.method = method /\ PathMatches(r.path, path)).endpoint
    ELSE IF \E r \in Routes : PathMatches(r.path, path) THEN "405" ELSE "404"

\* GET /recordings/{recording_id}: the module registers no route for it
get_recording(recording_id) ==
    LET endpoint == Dispatch("GET", <<"recordings", recording_id>>)
    IN /\ calls' = <<>>
       /\ response' = Resp("get_one",
                           IF endpoint = "405" THEN 405
                           ELSE IF endpoint = "404" THEN 404 ELSE 200,
                           FALSE, NoIdentity, recording_id, <<>>, {})
       /\ UNCHANGED <<user_metadata, storage, recordings, user_profiles, uploaded_path>>

\* -------------------------------------------------------- /user/profile/*
\* dict.get(key, default)
GetOr(d, k, default) == IF k \in DOMAIN d THEN d[k] ELSE default

sync_user_profile(current_user, ok) ==
    LET profile_data == [id |-> current_user.id, email |-> current_user.email,
                         full_name |-> SyncFullName(current_user), updated_at |-> utcnow]
        body == IF ~supabase THEN Raise(500)
                ELSE IF ~ok THEN Raise(0)
                ELSE Return(current_user.id)
    IN \E out \in {ExceptException(body)} :
        /\ user_profiles' = IF supabase THEN Upsert(user_profiles, profile_data, ok)
                            ELSE user_profiles
        /\ calls' = IF supabase THEN <<Call("user_profiles.upsert", ok)>> ELSE <<>>
        /\ response' = Resp("sync", out.status, FALSE, current_user, "", <<>>, {})
        /\ UNCHANGED <<user_metadata, storage, recordings, uploaded_path>>

get_user_profile(current_user, sel_ok) ==
    LET data == {p \in user_profiles : p.id = current_user.id}
        body == IF ~supabase THEN Raise(500)
                ELSE IF ~sel_ok THEN Raise(0)
                ELSE IF data = {} THEN Raise(404)
                ELSE Return(data)
    IN \E out \in {ExceptException(body)} :
        /\ calls' = IF supabase THEN <<Call("user_profiles.select", sel_ok)>> ELSE <<>>
        /\ response' = Resp("profile", out.status, FALSE, current_user, "", <<>>,
                            IF out.raised THEN {} ELSE out.value)
        /\ UNCHANGED <<user_metadata, storage, recordings, user_profiles, uploaded_path>>

\* request bodies of POST /user/profile/create (the last lacks "user_id")
CreateBodies ==
    {[user_id |-> u, email |-> "a@example.com", full_name |-> "Ann"] : u \in UserIds}
    \cup {[email |-> "a@example.com", full_name |-> "Ann"]}

create_user_profile(profile_data, ok) ==
    LET complete == {"user_id", "email", "full_name"} \subseteq DOMAIN profile_data
        user_profile_data ==
            [id |-> profile_data.user_id, email |-> profile_data.email,
             full_name |-> profile_data.full_name,
             created_at |-> utcnow, updated_at |-> utcnow]
        body == IF ~supabase THEN Raise(500)
                ELSE IF ~complete \/ ~ok THEN Raise(0)
                ELSE Return(profile_data.user_id)
    IN \E out \in {ExceptException(body)} :
        /\ user_profiles' = IF supabase /\ complete
                            THEN Upsert(user_profiles, user_profile_data, ok)
                            ELSE user_profiles
        /\ calls' = IF supabase /\ complete THEN <<Call("user_profiles.upsert", ok)>> ELSE <<>>
        /\ response' = Resp("create", out.status, FALSE, NoIdentity, "", <<>>, {})
        /\ UNCHANGED <<user_metadata, storage, recordings, uploaded_path>>

\* request bodies of PUT /user/profile/update
UpdateBodies ==
    {EmptyMeta, [full_name |-> "Ann"], [email |-> "a@example.com", full_name |-> "Ann"]}

\* supabase.auth.update_user({"data": {"full_name": ..., "name": ...}})
UpdateUser(metadata, full_name, ok) ==
    IF ~ok THEN metadata
    ELSE [k \in DOMAIN metadata \cup {"full_name", "name"} |->
            IF k \in {"full_name", "name"} THEN full_name ELSE metadata[k]]

update_user_profile(current_user, profile_data, meta_ok, ok) ==
    LET update_data == [id |-> current_user.id,
                        email |-> GetOr(profile_data, "email", current_user.email),
                        full_name |-> GetOr(profile_data, "full_name", ""),
                        updated_at |-> utcnow]
        has_metadata == DOMAIN current_user.user_metadata # {}
        body == IF ~supabase THEN Raise(500)
                ELSE IF ~ok THEN Raise(0)
                ELSE Return(current_user.id)
    IN \E out \in {ExceptException(body)} :
        /\ user_metadata' =
            IF supabase /\ has_metadata
            THEN UpdateUser(user_metadata, GetOr(profile_data, "full_name", ""), meta_ok)
            ELSE user_metadata
        /\ user_profiles' = IF supabase THEN Upsert(user_profiles, update_data, ok)
                            ELSE user_profiles
        /\ calls' = IF ~supabase THEN <<>>
                    ELSE (IF has_metadata THEN <<Call("auth.update_user", meta_ok)>> ELSE <<>>)
                         \o <<Call("user_profiles.upsert", ok)>>
        /\ response' = Resp("update", out.status, FALSE, current_user, "", <<>>, {})
        /\ UNCHANGED <<storage, recordings, uploaded_path>>

\* ------------------------------------------------------- the state machine
\* the module after import: the client created or not, the provider's user
\* registered under a display name, the tables and the bucket empty
Init ==
    /\ supabase \in BOOLEAN
    /\ user_metadata = [name |-> "Bob"]
    /\ storage = {}
    /\ recordings = {}
    /\ user_profiles = {}
    /\ nreq = 0
    /\ uploaded_path = {}
    /\ request = Req("none", NoCred, "none", "")
    /\ calls = <<>>
    /\ response = Resp("none", 0, FALSE, NoIdentity, "", <<>>, {})

RecordingIds == {r.id : r \in recordings} \cup {"missing"}

Upload ==
    \E cred \in Credentials : \E prov \in ProviderOutcomes(cred) :
    \E auth \in {get_current_user(cred, prov)} :
    \E content_type \in ContentTypes :
    \E up_ok \in Outcomes(supabase /\ StartsWith(content_type, AudioPrefix)) :
    \E case \in (IF supabase /\ StartsWith(content_type, AudioPrefix) /\ up_ok
                 THEN UploadCases ELSE {<<<<"rec">>, "plain">>}) :
    \E upsert_ok, ins_ok \in Outcomes(supabase /\ StartsWith(content_type, AudioPrefix) /\ up_ok) :
    \E rm_ok \in Outcomes(~ins_ok) :
        /\ Served("upload", cred, prov, content_type)
        /\ IF auth.raised THEN Rejected("upload", auth)
           ELSE upload_recording(auth.value, content_type, case[1], case[2],
                                 up_ok, upsert_ok, ins_ok, rm_ok)

Delete ==
    \E cred \in Credentials : \E prov \in ProviderOutcomes(cred) :
    \E auth \in {get_current_user(cred, prov)} :
    \E recording_id \in RecordingIds :
    \E sel_ok \in Outcomes(supabase) :
    \E rm_ok, del_ok \in Outcomes(supabase /\ sel_ok /\ recording_id # "missing") :
        /\ Served("delete", cred, prov, recording_id)
        /\ IF auth.raised THEN Rejected("delete", auth)
           ELSE delete_recording(auth.value, recording_id, sel_ok, rm_ok, del_ok)

List ==
    \E cred \in Credentials : \E prov \in ProviderOutcomes(cred) :
    \E auth \in {get_current_user(cred, prov)} :
    \E user_id \in UserIds, sel_ok \in Outcomes(supabase) :
        /\ Served("list", cred, prov, user_id)
        /\ IF auth.raised THEN Rejected("list", auth)
           ELSE get_user_recordings(auth.value, user_id, sel_ok)

GetOne ==
    \E cred \in Credentials : \E prov \in ProviderOutcomes(cred) :
    \E recording_id \in RecordingIds :
        /\ Served("get_one", cred, prov, recording_id)
        /\ get_recording(recording_id)

Sync ==
    \E cred \in Credentials : \E prov \in ProviderOutcomes(cred) :
    \E auth \in {get_current_user(cred, prov)} :
    \E ok \in Outcomes(supabase) :
        /\ Served("sync", cred, prov, "")
        /\ IF auth.raised THEN Rejected("sync", auth)
           ELSE sync_user_profile(auth.value, ok)

GetProfile ==
    \E cred \in Credentials : \E prov \in ProviderOutcomes(cred) :
    \E auth \in {get_current_user(cred, prov)} :
    \E sel_ok \in Outcomes(supabase) :
        /\ Served("profile", cred, prov, "")
        /\ IF auth.raised THEN Rejected("profile", auth)
           ELSE get_user_profile(auth.value, sel_ok)

Create ==
    \E profile_data \in CreateBodies :
    \E ok \in Outcomes(supabase /\ "user_id" \in DOMAIN profile_data) :
        /\ Served("create", NoCred, "none", Get(profile_data, "user_id"))
        /\ create_user_profile(profile_data, ok)

Update ==
    \E cred \in Credentials : \E prov \in ProviderOutcomes(cred) :
    \E auth \in {get_current_user(cred, prov)} :
    \E profile_data \in UpdateBodies :
    \E meta_ok \in Outcomes(supabase /\ DOMAIN auth.value.user_metadata # {}) :
    \E ok \in Outcomes(supabase) :
        /\ Served("update", cred, prov, "")
        /\ IF auth.raised THEN Rejected("update", auth)
           ELSE update_user_profile(auth.value, profile_data, meta_ok, ok)

Next == Upload \/ Delete \/ List \/ GetOne \/ Sync \/ GetProfile \/ Create \/ Update

Spec == Init /\ [][Next]_vars

\* ------------------------------------------------------------------ claims
\* the storage path the upload of recording `id` wrote
UploadedPath(id) == (CHOOSE e \in uploaded_path : e[1] = id)[2]

\* C1: every Recording row present in the table has an audio_url whose
\* storage object currently exists in the bucket (no dangling reference).
C1_NoDanglingReference ==
    \A r \in recordings : UploadedPath(r.id) \in storage

\* C2 as stated: whenever the storage write succeeded and the insert of the
\* row then fails, at the end of the upload the object is absent, no row for
\* it exists and the request fails with a 5xx status.
C2_RollbackAlwaysRemoves ==
    (request.op = "upload" /\ Called("storage.upload", TRUE)
        /\ Called("recordings.insert", FALSE))
    => /\ response.path \notin storage
       /\ ~\E r \in recordings : r.id = response.rid
       /\ response.status \in 500..599

\* C2 amended: whenever the storage write succeeded and the insert then
\* fails, the compensating remove is issued for the path written, no row for
\* the upload exists and the request fails with status 500; the object is
\* absent when that remove succeeded and still present when it failed.
C2_RollbackBestEffort ==
    (request.op = "upload" /\ Called("storage.upload", TRUE)
        /\ Called("recordings.insert", FALSE))
    => /\ Issued("storage.remove")
       /\ Called("storage.remove", TRUE) => response.path \notin storage
       /\ Called("storage.remove", FALSE) => response.path \in storage
       /\ ~\E r \in recordings : r.id = response.rid
       /\ response.status = 500

C2_Witness ==
    /\ request.op = "upload"
    /\ Called("storage.upload", TRUE) /\ Called("recordings.insert", FALSE)
    /\ Called("storage.remove", TRUE)
    /\ response.path # <<>> /\ response.path \notin storage

\* C3: an upload whose content type does not begin with "audio/" fails with
\* status 400 and writes no storage object, no profile row and no row.
C3_InvalidInputIs400 ==
    (request.op = "upload" /\ supabase /\ ~StartsWith(request.arg, AudioPrefix))
    => response.status = 400 /\ calls = <<>>

\* C4: a delete of an id that does not exist, and a delete of an id owned by
\* another user, both end with status 404 (never 403, never 5xx).
C4_UniformNotFound ==
    (/\ request.op = "delete" /\ Called("recordings.select", TRUE)
     /\ \/ ~\E r \in recordings : r.id = request.arg
        \/ \E r \in recordings : r.id = request.arg /\ r.user_id # response.caller.id)
    => response.status = 404

\* C5: a get-one request answers 404 when no row has the id, 403 when the
\* row is owned by another user, and the record when the caller owns it.
C5_GetOneOwnership ==
    request.op = "get_one" =>
        LET caller == get_current_user(request.cred, request.prov).value
            rows == {r \in recordings : r.id = request.arg}
        IN /\ rows = {} => response.status = 404
           /\ (\E r \in rows : r.user_id # caller.id) => response.status = 403
           /\ (\E r \in rows : r.user_id = caller.id)
                => response.status = 200 /\ response.body = rows

AuthOps == {"upload", "delete", "list", "sync", "profile", "update"}

\* C6: get_current_user gives the fallback identity when no credential is
\* presented and whenever verification fails (provider raises, provider
\* gives no user, client handle None), the provider's identity exactly when
\* verification succeeds, and never rejects the request.
C6_FailOpenIdentity ==
    [][(nreq' # nreq /\ request'.op \in AuthOps) =>
        /\ ~response'.rejected
        /\ response'.caller =
              IF request'.cred # NoCred /\ supabase /\ request'.prov = "user"
              THEN [id |-> "u1", email |-> "u1@example.com", user_metadata |-> user_metadata]
              ELSE [id |-> FallbackId, email |-> FallbackEmail, user_metadata |-> EmptyMeta]
      ]_vars

C6_Witness ==
    /\ request.op \in AuthOps /\ request.cred # NoCred
    /\ (~supabase \/ request.prov \in {"raise", "no-user"})
    /\ response.caller.id = FallbackId /\ ~response.rejected

\* C7: over any sequence of create, sync and update requests and uploads,
\* created_at of a profile, once set, never changes, and every update
\* request that succeeds sets updated_at to the current time.
C7_CreatedAtSetOnce ==
    [][/\ \A p \in user_profiles : \A q \in user_profiles' :
            (p.id = q.id /\ p.created_at # NULL) => q.created_at = p.created_at
       /\ (nreq' # nreq /\ request'.op = "update" /\ response'.status = 200)
            => \E q \in user_profiles' :
                    q.id = response'.caller.id /\ q.updated_at = utcnow
      ]_vars

\* C8: a delete of a recording owned by another user leaves the rows and the
\* objects unchanged and issues neither a storage remove nor a row delete,
\* whatever the collaborators answer.
C8_NonOwnerDeleteNoEffect ==
    [][(/\ nreq' # nreq /\ request'.op = "delete" /\ ~response'.rejected
        /\ \E r \in recordings : r.id = request'.arg /\ r.user_id # response'.caller.id)
       => /\ recordings' = recordings
          /\ storage' = storage
          /\ \A i \in DOMAIN calls' :
                calls'[i].fn \notin {"storage.remove", "recordings.delete"}
      ]_vars

C8_Witness ==
    /\ request.op = "delete" /\ Called("recordings.select", TRUE)
    /\ \E r \in recordings : r.id = request.arg /\ r.user_id # response.caller.id

\* C9: a successful delete of an uploaded recording by its owner issues the
\* storage remove for exactly the path the upload wrote, so that when every
\* collaborator call succeeds neither the row nor the object remains.
C9_DeleteRemovesUploadedPath ==
    (request.op = "delete" /\ response.status = 200)
    => /\ Issued("storage.remove")
       /\ response.path = UploadedPath(request.arg)
       /\ (\A i \in DOMAIN calls : calls[i].ok)
            => /\ UploadedPath(request.arg) \notin storage
               /\ ~\E r \in recordings : r.id = request.arg

\* C10: after an upload whose profile upsert succeeded, the caller's profile
\* row has full_name "Test User" and the caller's email, whatever name was
\* stored before, also when the insert of the recording then fails.
C10_UploadOverwritesName ==
    (request.op = "upload" /\ Called("user_profiles.upsert", TRUE))
    => \E p \in user_profiles :
            /\ p.id = response.caller.id
            /\ p.full_name = DefaultName
            /\ p.email = response.caller.email

C10_Witness ==
    /\ request.op = "upload" /\ Called("user_profiles.upsert", TRUE)
    /\ Called("recordings.insert", FALSE)
    /\ \E p \in user_profiles :
            /\ p.id = response.caller.id /\ p.full_name = DefaultName
            /\ p.updated_at # NULL
    /\ SyncFullName(response.caller) # DefaultName

====
